---- MODULE Spec2Model ----
(***************************************************************************)
(* macDevTUI: the Bubble Tea model of the installer wizard (main.go), the  *)
(* step registry (models.go) and the installation command (installer.go).  *)
(*                                                                         *)
(* The event loop owns the Model value m.  Every event is folded by Update *)
(* and the resulting snapshot is rendered by View.  An accepted start key  *)
(* returns a command that the runtime runs as a concurrent task; the task  *)
(* reads the step slice it shares with the event loop and returns one      *)
(* InstallMsg, which the event loop later folds.                           *)
(***************************************************************************)
EXTENDS Integers, Sequences, FiniteSets, TLC

VARIABLES
    m,               \* the Model value held by the event loop
    frame,           \* what View rendered for m
    quit,            \* the event loop has received tea.Quit
    tasks,           \* the installation commands started so far, in start order
    dotfilesStatus,  \* the package-level DotfilesStatus of installer.go
    last,            \* history: the event folded last, the command it returned, the
                     \* task it came from and the number of tasks started before it
    prev,            \* history: m before that event
    loaded,          \* what LoadConfig returned to a step function (Nil before)
    commands         \* the commands the step functions have run with exec.Command

vars == <<m, frame, quit, tasks, dotfilesStatus, last, prev, loaded, commands>>

----------------------------------------------------------------------------
(* Bounds of the model *)

\* accepted start commands per session
MaxRuns == 2
\* dotfiles a successful restoreDotfiles may report missing
MaxMissing == 1
\* terminal sizes of the layout specification
MaxWidth == 160
MaxHeight == 30

----------------------------------------------------------------------------
(* Program constants *)

StatusReady == 0
StatusInProgress == 1
StatusComplete == 2
StatusError == 3

QWERTY == 0
ColemakDH == 1

\* the progress percentage of the message contract
MaxProgress == 100

\* a nil pointer / nil error is the empty sequence, a set one a singleton
Nil == <<>>
Some(x) == <<x>>

CmdNil == "nil"
CmdQuit == "tea.Quit"
CmdStart == "StartInstallation"

----------------------------------------------------------------------------
(* strings *)

RECURSIVE ContainsFrom(_, _, _)
ContainsFrom(s, substr, i) ==
    IF i + Len(substr) - 1 > Len(s) THEN FALSE
    ELSE IF SubSeq(s, i, i + Len(substr) - 1) = substr THEN TRUE
    ELSE ContainsFrom(s, substr, i + 1)

\* strings.Contains
Contains(s, substr) == ContainsFrom(s, substr, 1)

\* %d of a small count
Itoa(n) == CASE n = 0 -> "0" [] n = 1 -> "1" [] n = 2 -> "2" [] OTHER -> "3"

----------------------------------------------------------------------------
(* models.go: the step registry *)

SetupStep(id) == [ID |-> id, Status |-> StatusReady, Error |-> "", Enabled |-> TRUE]

\* a configuration is its five Install flags
AllConfigs ==
    [Homebrew : BOOLEAN, Terminal : BOOLEAN, Shell : BOOLEAN,
     DevTools : BOOLEAN, Dotfiles : BOOLEAN]

\* mutant of getConfigurableSteps: the dotfiles step comes before devtools
getConfigurableStepsDotfilesEarly(config) ==
    IF config = Nil THEN <<>>
    ELSE LET c == config[1] IN
         (IF c.Homebrew THEN <<SetupStep("homebrew")>> ELSE <<>>)
      \o (IF c.Terminal THEN <<SetupStep("terminal")>> ELSE <<>>)
      \o (IF c.Shell THEN <<SetupStep("shell")>> ELSE <<>>)
      \o (IF c.Dotfiles THEN <<SetupStep("dotfiles")>> ELSE <<>>)
      \o (IF c.DevTools THEN <<SetupStep("devtools")>> ELSE <<>>)
      \o <<SetupStep("verify")>>

getConfigurableSteps(config) ==
    IF config = Nil THEN <<>>
    ELSE LET c == config[1] IN
         (IF c.Homebrew THEN <<SetupStep("homebrew")>> ELSE <<>>)
      \o (IF c.Terminal THEN <<SetupStep("terminal")>> ELSE <<>>)
      \o (IF c.Shell THEN <<SetupStep("shell")>> ELSE <<>>)
      \o (IF c.DevTools THEN <<SetupStep("devtools")>> ELSE <<>>)
      \o (IF c.Dotfiles THEN <<SetupStep("dotfiles")>> ELSE <<>>)
      \o <<SetupStep("verify")>>

getTotalConfiguredSteps(c) ==
      (IF c.Homebrew THEN 1 ELSE 0)
    + (IF c.Terminal THEN 1 ELSE 0)
    + (IF c.Shell THEN 1 ELSE 0)
    + (IF c.DevTools THEN 1 ELSE 0)
    + (IF c.Dotfiles THEN 1 ELSE 0)
    + 1

----------------------------------------------------------------------------
(* main.go: the Model and its Update *)

Notification(title, message, type) ==
    [Title |-> title, Message |-> message, Type |-> type]

\* LoadConfig's result: [config, err]
NewModel(load) ==
    [steps |-> IF load.err # Nil THEN <<>> ELSE getConfigurableSteps(load.config),
     selectedStep |-> 0,
     keyboardLayout |-> ColemakDH,
     width |-> 0,
     height |-> 0,
     installing |-> FALSE,
     showHelp |-> FALSE,
     currentProgress |-> 0,
     currentMessage |-> "Ready to install",
     notification |->
        IF load.err # Nil
        THEN Some(Notification("Configuration Error",
                 "Failed to load configuration: " \o load.err[1] \o "\nPress q to quit",
                 "error"))
        ELSE Nil]

\* mutant of toggleStep: the selected step is switched off, never on again
toggleStepOff(mm) ==
    IF mm.selectedStep >= 0 /\ mm.selectedStep < Len(mm.steps)
    THEN [mm EXCEPT !.steps[mm.selectedStep + 1].Enabled = FALSE]
    ELSE mm

toggleStep(mm) ==
    IF mm.selectedStep >= 0 /\ mm.selectedStep < Len(mm.steps)
    THEN [mm EXCEPT !.steps[mm.selectedStep + 1].Enabled = ~@]
    ELSE mm

\* mutant of navigate: the selection wraps around at both ends
navigateWrap(mm, key, upKeys, downKeys) ==
    IF key \in upKeys
    THEN IF mm.selectedStep > 0
         THEN [mm EXCEPT !.selectedStep = @ - 1]
         ELSE [mm EXCEPT !.selectedStep = IF Len(mm.steps) = 0 THEN 0
                                          ELSE Len(mm.steps) - 1]
    ELSE IF key \in downKeys
    THEN IF mm.selectedStep < Len(mm.steps) - 1
         THEN [mm EXCEPT !.selectedStep = @ + 1]
         ELSE [mm EXCEPT !.selectedStep = 0]
    ELSE IF key \in {"enter", " "}
    THEN toggleStep(mm)
    ELSE mm

\* mutant of navigate: navigation-down does not stop at the last step
navigateNoClamp(mm, key, upKeys, downKeys) ==
    IF key \in upKeys
    THEN IF mm.selectedStep > 0
         THEN [mm EXCEPT !.selectedStep = @ - 1] ELSE mm
    ELSE IF key \in downKeys
    THEN [mm EXCEPT !.selectedStep = @ + 1]
    ELSE IF key \in {"enter", " "}
    THEN toggleStep(mm)
    ELSE mm

\* the up/down/toggle switch, the same in both layouts but for the letters
navigate(mm, key, upKeys, downKeys) ==
    IF key \in upKeys
    THEN IF mm.selectedStep > 0
         THEN [mm EXCEPT !.selectedStep = @ - 1] ELSE mm
    ELSE IF key \in downKeys
    THEN IF mm.selectedStep < Len(mm.steps) - 1
         THEN [mm EXCEPT !.selectedStep = @ + 1] ELSE mm
    ELSE IF key \in {"enter", " "}
    THEN toggleStep(mm)
    ELSE mm

\* mutant of startKey: the start key is accepted while installing
startKeyWhileInstalling(mm) ==
    IF mm.notification = Nil
    THEN [m |-> [mm EXCEPT !.installing = TRUE], cmd |-> CmdStart]
    ELSE [m |-> mm, cmd |-> CmdNil]

\* mutant of startKey: the start key is accepted in every state
startKeyNoGuard(mm) ==
    [m |-> [mm EXCEPT !.installing = TRUE], cmd |-> CmdStart]

\* mutant of startKey: the start key is accepted under a notification
startKeyUnderNotification(mm) ==
    IF ~mm.installing
    THEN [m |-> [mm EXCEPT !.installing = TRUE], cmd |-> CmdStart]
    ELSE [m |-> mm, cmd |-> CmdNil]

\* mutant of startKey: an accepted start puts every step back to Ready
startKeyResetsSteps(mm) ==
    IF ~mm.installing /\ mm.notification = Nil
    THEN [m |-> [mm EXCEPT !.installing = TRUE,
                           !.steps = [i \in 1..Len(mm.steps) |->
                                         [mm.steps[i] EXCEPT !.Status = StatusReady,
                                                             !.Error = ""]]],
          cmd |-> CmdStart]
    ELSE [m |-> mm, cmd |-> CmdNil]

\* case "s", "S"
startKey(mm) ==
    IF ~mm.installing /\ mm.notification = Nil
    THEN [m |-> [mm EXCEPT !.installing = TRUE], cmd |-> CmdStart]
    ELSE [m |-> mm, cmd |-> CmdNil]

\* mutant of shortcuts: esc is not a quit key
shortcutsEscIgnored(mm, key) ==
    IF key \in {"q", "ctrl+c"}
    THEN [m |-> mm, cmd |-> CmdQuit]
    ELSE IF key = "?"
    THEN [m |-> [mm EXCEPT !.showHelp = ~@], cmd |-> CmdNil]
    ELSE IF key = "c"
    THEN [m |-> [mm EXCEPT !.keyboardLayout =
                     IF @ = QWERTY THEN ColemakDH ELSE QWERTY],
          cmd |-> CmdNil]
    ELSE IF key \in {"s", "S"}
    THEN startKey(mm)
    ELSE IF mm.keyboardLayout = QWERTY
    THEN [m |-> navigate(mm, key, {"up", "k"}, {"down", "j"}), cmd |-> CmdNil]
    ELSE [m |-> navigate(mm, key, {"up", "u"}, {"down", "e"}), cmd |-> CmdNil]

\* mutant of shortcuts: 'c' selects Colemak-DH and never goes back
shortcutsLayoutOneWay(mm, key) ==
    IF key \in {"q", "esc", "ctrl+c"}
    THEN [m |-> mm, cmd |-> CmdQuit]
    ELSE IF key = "?"
    THEN [m |-> [mm EXCEPT !.showHelp = ~@], cmd |-> CmdNil]
    ELSE IF key = "c"
    THEN [m |-> [mm EXCEPT !.keyboardLayout = ColemakDH], cmd |-> CmdNil]
    ELSE IF key \in {"s", "S"}
    THEN startKey(mm)
    ELSE IF mm.keyboardLayout = QWERTY
    THEN [m |-> navigate(mm, key, {"up", "k"}, {"down", "j"}), cmd |-> CmdNil]
    ELSE [m |-> navigate(mm, key, {"up", "u"}, {"down", "e"}), cmd |-> CmdNil]

\* mutant of shortcuts: the navigation letters are those of QWERTY in both layouts
shortcutsQwertyLetters(mm, key) ==
    IF key \in {"q", "esc", "ctrl+c"}
    THEN [m |-> mm, cmd |-> CmdQuit]
    ELSE IF key = "?"
    THEN [m |-> [mm EXCEPT !.showHelp = ~@], cmd |-> CmdNil]
    ELSE IF key = "c"
    THEN [m |-> [mm EXCEPT !.keyboardLayout =
                     IF @ = QWERTY THEN ColemakDH ELSE QWERTY],
          cmd |-> CmdNil]
    ELSE IF key \in {"s", "S"}
    THEN startKey(mm)
    ELSE [m |-> navigate(mm, key, {"up", "k"}, {"down", "j"}), cmd |-> CmdNil]

\* the global shortcuts, then the navigation of the active layout
shortcuts(mm, key) ==
    IF key \in {"q", "esc", "ctrl+c"}
    THEN [m |-> mm, cmd |-> CmdQuit]
    ELSE IF key = "?"
    THEN [m |-> [mm EXCEPT !.showHelp = ~@], cmd |-> CmdNil]
    ELSE IF key = "c"
    THEN [m |-> [mm EXCEPT !.keyboardLayout =
                     IF @ = QWERTY THEN ColemakDH ELSE QWERTY],
          cmd |-> CmdNil]
    ELSE IF key \in {"s", "S"}
    THEN startKey(mm)
    ELSE IF mm.keyboardLayout = QWERTY
    THEN [m |-> navigate(mm, key, {"up", "k"}, {"down", "j"}), cmd |-> CmdNil]
    ELSE [m |-> navigate(mm, key, {"up", "u"}, {"down", "e"}), cmd |-> CmdNil]

\* mutant of handleKeypress: a dismiss key clears the notification and is then
\* handled as a shortcut too
handleKeypressFallThrough(mm, key) ==
    IF mm.notification # Nil /\ key \in {"enter", "esc"}
    THEN shortcuts([mm EXCEPT !.notification = Nil], key)
    ELSE shortcuts(mm, key)

\* mutant of handleKeypress: while the help screen is shown only '?' and the
\* quit keys are handled
handleKeypressHelpModal(mm, key) ==
    IF mm.showHelp /\ key \notin {"?", "q", "esc", "ctrl+c"}
    THEN [m |-> mm, cmd |-> CmdNil]
    ELSE IF mm.notification # Nil /\ key \in {"enter", "esc"}
    THEN [m |-> [mm EXCEPT !.notification = Nil], cmd |-> CmdNil]
    ELSE shortcuts(mm, key)

handleKeypress(mm, key) ==
    IF mm.notification # Nil /\ key \in {"enter", "esc"}
    THEN [m |-> [mm EXCEPT !.notification = Nil], cmd |-> CmdNil]
    ELSE shortcuts(mm, key)

\* InstallMsg of installer.go
InstallMsg(stepID, status, progress, message, error) ==
    [StepID |-> stepID, Status |-> status, Progress |-> progress,
     Message |-> message, Error |-> error]

\* the first step whose ID is id (0 when there is none)
matchStep(steps, id) ==
    LET S == {i \in 1..Len(steps) : steps[i].ID = id}
    IN IF S = {} THEN 0 ELSE CHOOSE i \in S : \A j \in S : i <= j

\* mutant of foldStep: every step takes the status, whatever its ID
foldStepEveryStep(mm, msg) ==
    IF msg.StepID # ""
    THEN [mm EXCEPT !.steps = [i \in 1..Len(mm.steps) |->
             [mm.steps[i] EXCEPT !.Status = msg.Status,
                                 !.Error = IF msg.Error # Nil THEN msg.Error[1] ELSE @]]]
    ELSE mm

\* case InstallMsg, first block: the matching step takes the status and the error
foldStep(mm, msg) ==
    LET i == matchStep(mm.steps, msg.StepID)
    IN IF msg.StepID # "" /\ i # 0
       THEN [mm EXCEPT !.steps[i].Status = msg.Status,
                       !.steps[i].Error = IF msg.Error # Nil THEN msg.Error[1] ELSE @]
       ELSE mm

\* mutant of foldError: the error notification is raised but installing stays
foldErrorStillInstalling(mm, msg) ==
    IF msg.Error # Nil
    THEN [mm EXCEPT !.notification = Some(Notification("Installation Error",
                        "Step '" \o msg.StepID \o "' failed: " \o msg.Error[1]
                            \o "\nPress Enter to dismiss",
                        "error"))]
    ELSE mm

foldError(mm, msg) ==
    IF msg.Error # Nil
    THEN [mm EXCEPT !.installing = FALSE,
                    !.notification = Some(Notification("Installation Error",
                        "Step '" \o msg.StepID \o "' failed: " \o msg.Error[1]
                            \o "\nPress Enter to dismiss",
                        "error"))]
    ELSE mm

foldProgress(mm, msg) ==
    [mm EXCEPT !.currentProgress = IF msg.Progress > 0 THEN msg.Progress ELSE @,
               !.currentMessage = IF msg.Message # "" THEN msg.Message ELSE @]

foldComplete(mm, msg) ==
    IF Contains(msg.Message, "complete!")
    THEN [mm EXCEPT !.installing = FALSE,
                    !.currentProgress = 100,
                    !.steps = [i \in 1..Len(mm.steps) |->
                                  IF mm.steps[i].Enabled
                                  THEN [mm.steps[i] EXCEPT !.Status = StatusComplete]
                                  ELSE mm.steps[i]],
                    !.notification = Some(Notification("Installation Complete!",
                        "Report saved to: ./macdevtui-report.md\nPress Enter to dismiss",
                        "success"))]
    ELSE mm

\* the events of the event stream
WindowSizeMsg(w, h) == [type |-> "WindowSizeMsg", Width |-> w, Height |-> h]
KeyMsg(key) == [type |-> "KeyMsg", key |-> key]
InstallEvent(msg) == [type |-> "InstallMsg", msg |-> msg]

Update(mm, ev) ==
    CASE ev.type = "WindowSizeMsg" ->
            [m |-> [mm EXCEPT !.width = ev.Width, !.height = ev.Height], cmd |-> CmdNil]
      [] ev.type = "KeyMsg" -> handleKeypress(mm, ev.key)
      [] ev.type = "InstallMsg" ->
            [m |-> foldComplete(foldProgress(foldError(foldStep(mm, ev.msg), ev.msg),
                                             ev.msg), ev.msg),
             cmd |-> CmdNil]
      [] OTHER -> [m |-> mm, cmd |-> CmdNil]

----------------------------------------------------------------------------
(* main.go: View *)

\* mutant of navWidthFor: the large tier is not capped
navWidthForNoCap(width) ==
    IF width < 80 THEN 25
    ELSE IF width < 120
    THEN (IF width \div 4 < 25 THEN 25 ELSE width \div 4)
    ELSE width \div 3

navWidthFor(width) ==
    IF width < 80 THEN 25
    ELSE IF width < 120
    THEN (IF width \div 4 < 25 THEN 25 ELSE width \div 4)
    ELSE (IF width \div 3 > 50 THEN 50 ELSE width \div 3)

\* mutant of View: the detail width is not forced up to 20
ViewNoFallback(mm) ==
    IF mm.showHelp THEN [kind |-> "help"]
    ELSE IF mm.width = 0 \/ mm.height = 0 THEN [kind |-> "loading"]
    ELSE IF mm.width < 50 \/ mm.height < 10 THEN [kind |-> "too small"]
    ELSE [kind |-> "panes",
          navWidth |-> navWidthFor(mm.width),
          detailWidth |-> mm.width - navWidthFor(mm.width) - 6,
          contentHeight |-> IF mm.notification # Nil
                            THEN mm.height - 6 - 1 ELSE mm.height - 6,
          banner |-> mm.notification # Nil]

\* the frame View picks, with the pane dimensions of the normal layout
View(mm) ==
    IF mm.showHelp THEN [kind |-> "help"]
    ELSE IF mm.width = 0 \/ mm.height = 0 THEN [kind |-> "loading"]
    ELSE IF mm.width < 50 \/ mm.height < 10 THEN [kind |-> "too small"]
    ELSE LET nav0 == navWidthFor(mm.width)
             detail0 == mm.width - nav0 - 6
             narrow == detail0 < 20
             banner == mm.notification # Nil
         IN [kind |-> "panes",
             navWidth |-> IF narrow THEN mm.width - 20 - 6 ELSE nav0,
             detailWidth |-> IF narrow THEN 20 ELSE detail0,
             contentHeight |-> IF banner THEN mm.height - 6 - 1 ELSE mm.height - 6,
             banner |-> banner]

\* mutant of renderProgressBar: the filled count is rounded up
renderProgressBarRoundUp(mm, width) ==
    IF ~mm.installing
    THEN [rendered |-> FALSE, barWidth |-> 0, filledCount |-> 0, emptyCount |-> 0]
    ELSE LET barWidth == IF width - 4 < 10 THEN 10 ELSE width - 4
             filledCount == (barWidth * mm.currentProgress + 99) \div 100
         IN [rendered |-> TRUE, barWidth |-> barWidth,
             filledCount |-> filledCount, emptyCount |-> barWidth - filledCount]

\* the progress bar: nothing unless installing; the counts of filled and empty
\* cells.  int(float64(barWidth) * float64(currentProgress) / 100.0) is the
\* integer quotient: the product is exact in float64 and the quotient of a
\* non-multiple of 100 is at least 0.01 away from an integer.
renderProgressBar(mm, width) ==
    IF ~mm.installing
    THEN [rendered |-> FALSE, barWidth |-> 0, filledCount |-> 0, emptyCount |-> 0]
    ELSE LET barWidth == IF width - 4 < 10 THEN 10 ELSE width - 4
             filledCount == (barWidth * mm.currentProgress) \div 100
         IN [rendered |-> TRUE, barWidth |-> barWidth,
             filledCount |-> filledCount, emptyCount |-> barWidth - filledCount]

\* the progress bar of the detail pane (none for an invalid selection)
renderDetails(mm, paneWidth) ==
    IF mm.selectedStep < 0 \/ mm.selectedStep >= Len(mm.steps)
    THEN [rendered |-> FALSE, barWidth |-> 0, filledCount |-> 0, emptyCount |-> 0]
    ELSE renderProgressBar(mm, paneWidth - 4)

----------------------------------------------------------------------------
(* installer.go: the installation command *)

\* what the step functions can return as an error, per step
StepErrors(id) ==
    CASE id = "homebrew" -> {"failed to install Homebrew: exit status 1"}
      [] id = "terminal" -> {"failed to copy kitty.conf to .config/kitty.conf: EACCES"}
      [] id = "shell" -> {"zsh is not installed: not found in $PATH"}
      [] id = "devtools" -> {"failed to install global tool [npm i -g pnpm]: exit status 1"}
      [] id = "dotfiles" ->
            {"failed to copy file .zshrc to .zshrc: EACCES",
             "failed to copy directory complete!/nvim to .config/nvim: EACCES"}
      [] id = "verify" -> {"verification failed for: brew"}
      [] OTHER -> {}

ZeroDotfilesStatus == [MissingFiles |-> 0, IsCleanInstall |-> FALSE]

\* restoreDotfiles stores its result when it succeeds
DotfilesResult(missing) == [MissingFiles |-> missing, IsCleanInstall |-> missing > 0]

\* mutant of FailureMsg: the failure message does not name the step
FailureMsgNoStepID(id, err) ==
    InstallMsg("", StatusError, 0, "Failed: " \o err, Some(err))

\* the message StartInstallation returns when a step fails
FailureMsg(id, err) ==
    InstallMsg(id, StatusError, 0, "Failed: " \o err, Some(err))

\* mutant of CompletionMsg: the clean-install wording without the marker
CompletionMsgCleanDone(ds) ==
    InstallMsg("", StatusReady, 100,
               IF ds.IsCleanInstall /\ ds.MissingFiles > 0
               THEN "Clean install done (" \o Itoa(ds.MissingFiles)
                        \o " dotfiles not found)"
               ELSE "All installations complete!",
               Nil)

\* the message StartInstallation returns when the loop ends
CompletionMsg(ds) ==
    InstallMsg("", StatusReady, 100,
               IF ds.IsCleanInstall /\ ds.MissingFiles > 0
               THEN "Clean install complete! (" \o Itoa(ds.MissingFiles)
                        \o " dotfiles not found)"
               ELSE "All installations complete!",
               Nil)

ZeroMsg == InstallMsg("", StatusReady, 0, "", Nil)

\* The command closes over the Model value: its steps slice shares the backing
\* array with the event loop's.  i is the range index (0 before the closure
\* has reset executedSteps); executedSteps is the package-level slice as this
\* command fills it (nothing of the UI reads it once the command has returned);
\* raced[j] records that the event loop has written steps[j].Enabled since the
\* command was created, so that the command's unsynchronised read of it may
\* see either value; startEnabled is the Enabled flags at creation (history).
StartInstallation(mm) ==
    [pc |-> "running", i |-> 0,
     raced |-> [j \in 1..Len(mm.steps) |-> FALSE],
     startEnabled |-> [j \in 1..Len(mm.steps) |-> mm.steps[j].Enabled],
     executedSteps |-> <<>>,
     msg |-> ZeroMsg]

\* a command whose message the event loop has folded
DoneTask == [pc |-> "done", i |-> 0, raced |-> <<>>, startEnabled |-> <<>>,
             executedSteps |-> <<>>, msg |-> ZeroMsg]

\* mutant of failStep: the failure is noted and the loop goes on to the next step
failStepContinue(t, id, err) ==
    [t EXCEPT !.i = @ + 1,
              !.executedSteps = Append(@, id),
              !.msg = FailureMsg(id, err)]

\* the command after the step id returned err: it returns the failure message
failStep(t, id, err) ==
    [t EXCEPT !.pc = "returned",
              !.executedSteps = Append(@, id),
              !.msg = FailureMsg(id, err)]

\* the values a read of steps[j].Enabled by the command can return
EnabledRead(t, j) == IF t.raced[j] THEN BOOLEAN ELSE {m.steps[j].Enabled}

\* the event loop has written Enabled of the steps that differ in before/after
noteWrites(ts, before, after) ==
    [r \in 1..Len(ts) |->
        IF ts[r].pc = "running"
        THEN [ts[r] EXCEPT !.raced = [j \in DOMAIN @ |->
                  @[j] \/ before[j].Enabled # after[j].Enabled]]
        ELSE ts[r]]

----------------------------------------------------------------------------
(* config.go: Validate; installer.go: the commands of the step functions *)

HasPrefix(s, prefix) ==
    Len(s) >= Len(prefix) /\ SubSeq(s, 1, Len(prefix)) = prefix

\* strings.ReplaceAll, from position i on
RECURSIVE ReplaceFrom(_, _, _, _)
ReplaceFrom(s, old, new, i) ==
    IF i > Len(s) THEN ""
    ELSE IF i + Len(old) - 1 <= Len(s) /\ SubSeq(s, i, i + Len(old) - 1) = old
    THEN new \o ReplaceFrom(s, old, new, i + Len(old))
    ELSE SubSeq(s, i, i) \o ReplaceFrom(s, old, new, i + 1)

ReplaceAll(s, old, new) == ReplaceFrom(s, old, new, 1)

\* filepath.Join(homeDir, rest) for a rest without "." and empty elements
JoinHome(homeDir, rest) ==
    IF homeDir = "" THEN rest
    ELSE IF rest = "" THEN homeDir
    ELSE homeDir \o "/" \o rest

expandPath(path, homeDir) ==
    IF HasPrefix(path, "~/") THEN JoinHome(homeDir, SubSeq(path, 3, Len(path)))
    ELSE IF path = "~" THEN homeDir
    ELSE LET p1 == IF Contains(path, "$HOME")
                   THEN ReplaceAll(path, "$HOME", homeDir) ELSE path
         IN IF Contains(p1, "{{.HOME}}")
            THEN ReplaceAll(p1, "{{.HOME}}", homeDir) ELSE p1

expandCommands(cmds, homeDir) ==
    [i \in 1..Len(cmds) |->
        [j \in 1..Len(cmds[i]) |-> expandPath(cmds[i][j], homeDir)]]

dangerousCommands ==
    {"rm", "sudo", "chmod", "chown", "dd", "mkfs", "fdisk", "killall", "kill"}

\* the first error of a sequence of results (Nil: none)
FirstError(errs) ==
    LET S == {i \in 1..Len(errs) : errs[i] # Nil}
    IN IF S = {} THEN Nil ELSE errs[CHOOSE i \in S : \A j \in S : i <= j]

\* Validate's checks of one shell init command
ValidateInitCommand(cmd) ==
    IF Len(cmd) = 0 THEN Some("empty command in shell init commands")
    ELSE IF cmd[1] \in dangerousCommands
    THEN Some("potentially dangerous command in shell init: " \o cmd[1])
    ELSE FirstError([j \in 1..Len(cmd) |->
            IF Contains(cmd[j], "-rf") \/ Contains(cmd[j], "--force")
            THEN Some("potentially dangerous flag found in command: " \o cmd[j])
            ELSE Nil])

ValidateLanguage(lang) ==
    IF lang.Name = "" THEN Some("language name cannot be empty")
    ELSE IF lang.Enabled /\ Len(lang.Commands) = 0
    THEN Some("language " \o lang.Name \o " is enabled but has no commands")
    ELSE Nil

\* InstallConfig.Validate: the first error, or Nil
Validate(c) ==
    FirstError(<<
        IF c.Homebrew.Install /\ Len(c.Homebrew.BrewfilePaths) = 0
        THEN Some("homebrew is enabled but no brewfile paths specified") ELSE Nil,
        IF c.Shell.Install /\ Len(c.Shell.RequiredTools) = 0
        THEN Some("shell is enabled but no required tools specified") ELSE Nil,
        IF c.Shell.Install
        THEN FirstError([i \in 1..Len(c.Shell.InitCommands) |->
                            ValidateInitCommand(c.Shell.InitCommands[i])])
        ELSE Nil,
        IF c.DevTools.Install
        THEN FirstError([i \in 1..Len(c.DevTools.Languages) |->
                            ValidateLanguage(c.DevTools.Languages[i])])
        ELSE Nil,
        IF c.Dotfiles.Install /\ Len(c.Dotfiles.Mappings) = 0
        THEN Some("dotfiles is enabled but no mappings specified") ELSE Nil,
        IF c.Terminal.Install /\ Len(c.Terminal.ConfigFiles) = 0
        THEN Some("terminal is enabled but no config files specified") ELSE Nil >>)

\* LoadConfig on a configuration file that parses as file
LoadConfig(file) ==
    IF Validate(file) # Nil
    THEN [config |-> Nil, err |-> Some("invalid configuration: " \o Validate(file)[1])]
    ELSE [config |-> Some(file), err |-> Nil]

NonEmpty(cmd) == Len(cmd) # 0

\* the commands configureShell hands to exec.Command when every one succeeds
configureShell(c, homeDir) ==
    IF ~c.Shell.Install THEN <<>>
    ELSE SelectSeq(expandCommands(c.Shell.InitCommands, homeDir), NonEmpty)

RECURSIVE LanguageCommands(_, _)
LanguageCommands(langs, i) ==
    IF i > Len(langs) THEN <<>>
    ELSE (IF langs[i].Enabled THEN SelectSeq(langs[i].Commands, NonEmpty) ELSE <<>>)
         \o LanguageCommands(langs, i + 1)

\* the commands installDevTools hands to exec.Command when every one succeeds
installDevTools(c) ==
    IF ~c.DevTools.Install THEN <<>>
    ELSE LanguageCommands(c.DevTools.Languages, 1)
         \o SelectSeq(c.DevTools.GlobalTools, NonEmpty)

----------------------------------------------------------------------------
(* The inputs *)

Keys == {"enter", "esc", "q", "ctrl+c", "?", "c", "s", "S",
         "up", "down", "k", "j", "u", "e", " ", "tab", "x"}

\* the sections a configuration of the main specification may install
MainConfigs ==
    {c \in AllConfigs : ~c.Homebrew /\ ~c.Terminal /\ ~c.Shell /\ ~c.DevTools /\ c.Dotfiles}

LoadErrors == {"no configuration file found in expected locations"}

Loads(configs) ==
    {[config |-> Some(c), err |-> Nil] : c \in configs}
    \cup {[config |-> Nil, err |-> Some(e)] : e \in LoadErrors}

\* the keys the main specification presses (the layout stays Colemak-DH and
\* the selection only moves down; the other keys are pressed in SpecOpen and
\* SpecNav)
MainKeys == {"enter", "esc", "q", "s", " ", "down"}

\* The open specification: the collaborator's messages are arbitrary.
OpenKeys == {"enter", "esc", "q", "?", "s", " ", "up", "down"}
OpenSizes == {<<100, 30>>}

\* the messages the open specification delivers
OpenMsgs ==
    {InstallMsg("verify", StatusInProgress, 50, "Installing verify...", Nil),
     InstallMsg("verify", StatusInProgress, 25, "Installing verify...", Nil),
     InstallMsg("verify", StatusError, 0, "Failed: exit status 1", Some("exit status 1")),
     InstallMsg("dotfiles", StatusError, 0, "Failed: complete!", Some("complete!")),
     InstallMsg("", StatusReady, 100, "All installations complete!", Nil)}

NoEvent == [type |-> "none"]

----------------------------------------------------------------------------
(* The state machine *)

InitWith(m0) ==
    /\ m = m0
    /\ frame = View(m0)
    /\ quit = FALSE
    /\ tasks = <<>>
    /\ dotfilesStatus = ZeroDotfilesStatus
    /\ last = [ev |-> NoEvent, cmd |-> CmdNil, from |-> DoneTask, started |-> 0]
    /\ prev = m0
    /\ loaded = Nil
    /\ commands = <<>>

Init == \E load \in Loads(MainConfigs) : InitWith(NewModel(load))

\* the event loop folds one event: Update, then View
Fold(ev) ==
    LET r == Update(m, ev) IN
    /\ ~quit
    /\ m' = r.m
    /\ frame' = View(r.m)
    /\ quit' = (r.cmd = CmdQuit)
    /\ last' = [ev |-> ev, cmd |-> r.cmd, from |-> DoneTask, started |-> Len(tasks)]
    /\ prev' = m
    /\ UNCHANGED <<loaded, commands>>

\* the runtime runs the command Update returned as a concurrent task
RunCmd(ev) ==
    LET r == Update(m, ev) IN
    /\ r.cmd = CmdStart => Len(tasks) < MaxRuns
    /\ tasks' = IF r.cmd = CmdStart
                THEN Append(tasks, StartInstallation(r.m))
                ELSE noteWrites(tasks, m.steps, r.m.steps)

Resize(sizes) == \E s \in sizes :
    /\ Fold(WindowSizeMsg(s[1], s[2]))
    /\ UNCHANGED <<tasks, dotfilesStatus>>

KeyPress(keys) == \E key \in keys :
    /\ Fold(KeyMsg(key))
    /\ RunCmd(KeyMsg(key))
    /\ UNCHANGED dotfilesStatus

\* a key press whose command is left to the environment
KeyPressOpen(keys) == \E key \in keys :
    /\ Fold(KeyMsg(key))
    /\ UNCHANGED <<tasks, dotfilesStatus>>

\* one step of a running command: the reset, one range iteration, or the return
TaskStep == \E r \in 1..Len(tasks) :
    LET t == tasks[r] IN
    /\ ~quit
    /\ t.pc = "running"
    /\ IF t.i = 0
       THEN /\ tasks' = [tasks EXCEPT ![r].i = 1, ![r].executedSteps = <<>>]
            /\ UNCHANGED dotfilesStatus
       ELSE IF t.i <= Len(t.raced)
       THEN \E enabled \in EnabledRead(t, t.i) :
            LET id == m.steps[t.i].ID IN
            IF ~enabled
            THEN /\ tasks' = [tasks EXCEPT ![r].i = @ + 1]
                 /\ UNCHANGED dotfilesStatus
            ELSE /\ \/ /\ tasks' = [tasks EXCEPT ![r].i = @ + 1,
                                                 ![r].executedSteps = Append(@, id)]
                       /\ IF id = "dotfiles"
                          THEN \E k \in 0..MaxMissing :
                                  dotfilesStatus' = DotfilesResult(k)
                          ELSE UNCHANGED dotfilesStatus
                    \/ /\ \E err \in StepErrors(id) :
                             tasks' = [tasks EXCEPT ![r] = failStep(t, id, err)]
                       /\ UNCHANGED dotfilesStatus
       ELSE /\ tasks' = [tasks EXCEPT ![r].pc = "returned",
                                      ![r].msg = CompletionMsg(dotfilesStatus)]
            /\ UNCHANGED dotfilesStatus
    /\ UNCHANGED <<m, frame, quit, last, prev, loaded, commands>>

\* the runtime hands the command's message to Update
Deliver == \E r \in 1..Len(tasks) :
    /\ tasks[r].pc = "returned"
    /\ ~quit
    /\ LET ev == InstallEvent(tasks[r].msg)
           res == Update(m, ev) IN
       /\ m' = res.m
       /\ frame' = View(res.m)
       /\ tasks' = [noteWrites(tasks, m.steps, res.m.steps) EXCEPT ![r] = DoneTask]
       /\ last' = [ev |-> ev, cmd |-> res.cmd, from |-> tasks[r],
                    started |-> Len(tasks)]
       /\ prev' = m
    /\ UNCHANGED <<quit, dotfilesStatus, loaded, commands>>

\* a message arrives on the event stream from outside the model
Inject(msgs) == \E msg \in msgs :
    /\ Fold(InstallEvent(msg))
    /\ UNCHANGED <<tasks, dotfilesStatus>>

Next == KeyPress(MainKeys) \/ TaskStep \/ Deliver

Spec == Init /\ [][Next]_vars

NextOpen == Resize(OpenSizes) \/ KeyPressOpen(OpenKeys) \/ Inject(OpenMsgs)

SpecOpen == Init /\ [][NextOpen]_vars

\* The fair specification: the runtime keeps running a started command (every
\* step function returns) and keeps handing returned messages to Update.
LiveKeys == {"enter", "q", "s", " "}

NextLive == KeyPress(LiveKeys) \/ TaskStep \/ Deliver

SpecLive == Init /\ [][NextLive]_vars /\ WF_vars(TaskStep) /\ WF_vars(Deliver)

\* The help specification: the help key next to start, toggle and dismissal,
\* with the commands the start key creates.
HelpKeys == {"?", "s", "enter"}

NextHelp == KeyPress(HelpKeys) \/ TaskStep \/ Deliver

SpecHelp == Init /\ [][NextHelp]_vars

\* The registry specification: NewModel builds the step list of every
\* configuration (kept in loaded), and the keys move and toggle.
RegistryKeys == {"down", "up", "enter"}

InitRegistry ==
    \E c \in AllConfigs :
        LET m0 == NewModel([config |-> Some(c), err |-> Nil]) IN
        /\ m = m0
        /\ frame = View(m0)
        /\ quit = FALSE
        /\ tasks = <<>>
        /\ dotfilesStatus = ZeroDotfilesStatus
        /\ last = [ev |-> NoEvent, cmd |-> CmdNil, from |-> DoneTask, started |-> 0]
        /\ prev = m0
        /\ loaded = Some(c)
        /\ commands = <<>>

NextRegistry == KeyPressOpen(RegistryKeys)

SpecRegistry == InitRegistry /\ [][NextRegistry]_vars

\* The progress specification: the pane layout on every width above the size
\* floor, with progress messages in the contract's range 0..100.
ProgressKeys == {"s", "enter"}

\* progress messages in the contract's range, and the completion message
AllProgressMsgs ==
    {InstallMsg("verify", StatusInProgress, p, "Installing verify...", Nil) :
        p \in 0..MaxProgress}
    \cup {InstallMsg("", StatusReady, MaxProgress, "All installations complete!", Nil)}

\* the ones the progress specification folds
ProgressMsgs ==
    {msg \in AllProgressMsgs : msg.Progress \in {0, 33, MaxProgress}}

InitProgress ==
    \E c \in MainConfigs, w \in 50..MaxWidth :
        InitWith(Update(NewModel([config |-> Some(c), err |-> Nil]),
                        WindowSizeMsg(w, MaxHeight)).m)

NextProgress == KeyPressOpen(ProgressKeys) \/ Inject(ProgressMsgs)

SpecProgress == InitProgress /\ [][NextProgress]_vars

\* The layout specification: View on every terminal size, after the first
\* WindowSizeMsg.
LayoutKeys == {"?", "enter"}

InitLayout ==
    \E load \in Loads(MainConfigs), w \in 0..MaxWidth, h \in 0..MaxHeight :
        InitWith(Update(NewModel(load), WindowSizeMsg(w, h)).m)

NextLayout == KeyPressOpen(LayoutKeys)

SpecLayout == InitLayout /\ [][NextLayout]_vars

\* The navigation specification: a registry of three steps, the keys of both
\* layouts and the layout switch.
NavConfigs ==
    {c \in AllConfigs : c.Homebrew /\ ~c.Terminal /\ ~c.Shell /\ ~c.DevTools /\ c.Dotfiles}

NavSpecKeys == {"up", "down", "k", "j", "u", "e", "c", "enter", " "}

InitNav == \E load \in Loads(NavConfigs) : InitWith(NewModel(load))

NextNav == KeyPressOpen(NavSpecKeys)

SpecNav == InitNav /\ [][NextNav]_vars

\* The command specification: a step function loads a configuration file and
\* runs its commands up to the first one that fails.
CommandUniverse ==
    {<<>>, <<"echo", "ok">>, <<"rm", "x">>, <<"sudo", "ls">>, <<"cp", "-rf", "a">>,
     <<"git", "push", "--force-with-lease">>, <<"~/rm", "x">>}

CommandLists == {<<>>} \cup {<<cmd>> : cmd \in CommandUniverse}

FileConfigs ==
    {[Homebrew |-> [Install |-> FALSE, BrewfilePaths |-> <<>>],
      Shell |-> [Install |-> si, RequiredTools |-> rt, InitCommands |-> ic],
      DevTools |-> [Install |-> di,
                    Languages |-> <<[Name |-> "go", Enabled |-> le, Commands |-> lc]>>,
                    GlobalTools |-> gt],
      Dotfiles |-> [Install |-> FALSE, Mappings |-> <<>>],
      Terminal |-> [Install |-> FALSE, ConfigFiles |-> <<>>]] :
        si \in BOOLEAN, rt \in {<<>>, <<"zsh">>}, ic \in CommandLists,
        di \in BOOLEAN, le \in BOOLEAN, lc \in CommandLists, gt \in CommandLists}

\* os.UserHomeDir of a session whose home directory is set
HomeDirs == {"/Users/dev"}

Prefixes(cmds) == {SubSeq(cmds, 1, n) : n \in 0..Len(cmds)}

\* a step function of the registry loads the configuration and runs its commands
RunStepFunction ==
    /\ loaded = Nil
    /\ \E step \in {"shell", "devtools"}, file \in FileConfigs, homeDir \in HomeDirs :
          LET load == LoadConfig(file) IN
          /\ matchStep(m.steps, step) # 0
          /\ loaded' = Some([step |-> step, homeDir |-> homeDir, load |-> load])
          /\ IF load.err # Nil
             THEN commands' = <<>>
             ELSE \E run \in Prefixes(IF step = "shell"
                                      THEN configureShell(load.config[1], homeDir)
                                      ELSE installDevTools(load.config[1])) :
                     commands' = run
    /\ UNCHANGED <<m, frame, quit, tasks, dotfilesStatus, last, prev>>

NextCommands == RunStepFunction

\* the registry has the shell and the devtools step
CommandConfigs ==
    {c \in AllConfigs : ~c.Homebrew /\ ~c.Terminal /\ c.Shell /\ c.DevTools /\ ~c.Dotfiles}

InitCommands ==
    \E c \in CommandConfigs : InitWith(NewModel([config |-> Some(c), err |-> Nil]))

SpecCommands == InitCommands /\ [][NextCommands]_vars

----------------------------------------------------------------------------
(* Properties *)

\* what the last event was
LastKey(keys) == last.ev.type = "KeyMsg" /\ last.ev.key \in keys
LastInstall == last.ev.type = "InstallMsg"

Notified(mm) == mm.notification # Nil
NotifiedAs(mm, type) == mm.notification # Nil /\ mm.notification[1].Type = type

\* the commands that have not returned their message to the event loop yet
Active == {r \in 1..Len(tasks) : tasks[r].pc # "done"}

DismissKeys == {"enter", "esc"}
ToggleKeys == {"enter", " "}
NavKeys == {"up", "down", "k", "j", "u", "e"}
StartKeys == {"s", "S"}

\* selectedStep is a valid index of the step list of mm, 0 for an empty one
InRange(mm) ==
    IF Len(mm.steps) = 0
    THEN mm.selectedStep = 0
    ELSE 0 <= mm.selectedStep /\ mm.selectedStep <= Len(mm.steps) - 1

\* C1: selectedStep is a valid index of a non-empty step list, and 0 when the
\* list is empty, after any sequence of key, resize and install events.
C1_SelectedStepInRange ==
    /\ InRange(m)
    /\ \A key \in Keys : InRange(Update(m, KeyMsg(key)).m)

\* C1 witness: a navigation-down key was folded at the last index.
C1_Witness ==
    /\ LastKey({"down"})
    /\ Len(m.steps) >= 2
    /\ prev.selectedStep = Len(m.steps) - 1
    /\ m.selectedStep = Len(m.steps) - 1

\* C2 (as claimed): an InstallMsg with Error set leaves installing false and an
\* active notification of type "error".
C2_ErrorMsgGivesErrorNotification ==
    (LastInstall /\ last.ev.msg.Error # Nil)
        => (~m.installing /\ NotifiedAs(m, "error"))

\* C3 (as claimed): a message containing "complete!" leaves every step that was
\* Enabled Complete, progress 100, installing false, a success notification,
\* and every step that was not Enabled with the Status it had.
C3_CompleteAsClaimed ==
    (LastInstall /\ Contains(last.ev.msg.Message, "complete!"))
        => /\ m.currentProgress = 100
           /\ ~m.installing
           /\ NotifiedAs(m, "success")
           /\ \A i \in 1..Len(prev.steps) :
                 IF prev.steps[i].Enabled
                 THEN m.steps[i].Status = StatusComplete
                 ELSE m.steps[i].Status = prev.steps[i].Status

\* C4 (as claimed): with a notification active, a navigation key or the space
\* key leaves the session state unchanged.
C4_NonDismissKeysSwallowed ==
    (LastKey(NavKeys \cup {" "}) /\ Notified(prev)) => m = prev

C6_StartGuard ==
    /\ \A key \in StartKeys :
          LET r == Update(m, KeyMsg(key)) IN
          IF ~m.installing /\ ~Notified(m)
          THEN r.cmd = CmdStart
          ELSE r.cmd = CmdNil /\ r.m = m
    /\ (LastKey(StartKeys) /\ (prev.installing \/ Notified(prev)))
          => m = prev /\ last.cmd = CmdNil /\ Len(tasks) = last.started
    /\ (LastKey(StartKeys) /\ ~prev.installing /\ ~Notified(prev))
          => last.cmd = CmdStart /\ Len(tasks) = last.started + 1

\* C6 witness: 's' was folded while a command was running.
C6_Witness ==
    /\ LastKey({"s"})
    /\ prev.installing
    /\ Active # {}
    /\ m = prev
    /\ Len(tasks) = last.started

\* C7 (as claimed): an accepted start leaves installing true and
\* currentProgress 0.
C7_StartResetsProgress ==
    (LastKey(StartKeys) /\ last.cmd = CmdStart)
        => (m.installing /\ m.currentProgress = 0)

\* what a toggle of the selected step of mm gives
Toggled(mm) ==
    IF Len(mm.steps) = 0 THEN mm
    ELSE [mm EXCEPT !.steps =
            [i \in 1..Len(mm.steps) |->
                IF i = mm.selectedStep + 1
                THEN [ID |-> mm.steps[i].ID, Status |-> mm.steps[i].Status,
                      Error |-> mm.steps[i].Error, Enabled |-> ~mm.steps[i].Enabled]
                ELSE mm.steps[i]]]

\* C8: with no notification active the toggle key flips Enabled of the selected
\* step and nothing else, twice in a row it restores the state, and on an
\* empty step list it changes nothing.
C8_Toggle ==
    /\ ~Notified(m) =>
          \A key \in ToggleKeys :
             LET r == Update(m, KeyMsg(key)) IN
             /\ r.m = Toggled(m)
             /\ Update(r.m, KeyMsg(key)).m = m
             /\ Len(m.steps) = 0 => r.m = m
    /\ (LastKey(ToggleKeys) /\ ~Notified(prev))
          => /\ m = Toggled(prev)
             /\ Update(m, KeyMsg(last.ev.key)).m = prev

\* C8 witness: space was folded with no notification and flipped the selected
\* step of a list of two.
C8_Witness ==
    /\ LastKey({" "})
    /\ ~Notified(prev)
    /\ Len(m.steps) >= 2
    /\ m.steps[m.selectedStep + 1].Enabled # prev.steps[m.selectedStep + 1].Enabled
    /\ \A i \in 1..Len(m.steps) : i # m.selectedStep + 1 => m.steps[i] = prev.steps[i]

\* C9 (as claimed): for width >= 50 and height >= 10 the panes satisfy
\* navWidth + detailWidth + 6 <= width, navWidth >= 25, detailWidth >= 20.
C9_PaneFloorsAsClaimed ==
    (m.width >= 50 /\ m.height >= 10 /\ frame.kind = "panes")
        => /\ frame.navWidth + frame.detailWidth + 6 <= m.width
           /\ frame.navWidth >= 25
           /\ frame.detailWidth >= 20

\* C9 (amended): for width >= 50 and height >= 10 the panes satisfy
\* navWidth + detailWidth + 6 <= width and detailWidth >= 20; navWidth >= 25
\* for width >= 51, and at width 50 the narrow fallback gives navWidth 24.
C9_PaneFloors ==
    (m.width >= 50 /\ m.height >= 10 /\ ~m.showHelp)
        => /\ frame.kind = "panes"
           /\ frame.navWidth + frame.detailWidth + 6 <= m.width
           /\ frame.detailWidth >= 20
           /\ m.width >= 51 => frame.navWidth >= 25
           /\ m.width = 50 => frame.navWidth = 24

\* C9 witness: the panes of a terminal 50 wide.
C9_Witness ==
    /\ m.width = 50 /\ m.height >= 10
    /\ frame.kind = "panes"
    /\ frame.navWidth = 24 /\ frame.detailWidth = 20

Max(a, b) == IF a >= b THEN a ELSE b
Min(a, b) == IF a <= b THEN a ELSE b

\* the three-tier reference policy
RefNav(w) ==
    IF w < 80 THEN 25
    ELSE IF w < 120 THEN Max(w \div 4, 25)
    ELSE Min(w \div 3, 50)

\* C10: above the size floor the layout of View is the three-tier reference
\* policy, with the detail width forced to 20 when it would fall below, and
\* the content height height - 6, less 1 under a notification; 100x30 gives
\* navWidth 25 and detailWidth 69.
C10_LayoutPolicy ==
    (m.width >= 50 /\ m.height >= 10 /\ ~m.showHelp)
        => /\ frame.kind = "panes"
           /\ IF m.width - RefNav(m.width) - 6 < 20
              THEN frame.detailWidth = 20 /\ frame.navWidth = m.width - 26
              ELSE /\ frame.navWidth = RefNav(m.width)
                   /\ frame.detailWidth = m.width - RefNav(m.width) - 6
           /\ frame.contentHeight = m.height - 6 - (IF Notified(m) THEN 1 ELSE 0)
           /\ (m.width = 100 /\ m.height = 30)
                 => frame.navWidth = 25 /\ frame.detailWidth = 69

\* C10 witness: the frame of a 100x30 terminal under a notification.
C10_Witness ==
    /\ m.width = 100 /\ m.height = 30
    /\ Notified(m)
    /\ frame.kind = "panes"
    /\ frame.navWidth = 25 /\ frame.detailWidth = 69 /\ frame.contentHeight = 23

\* the navigation keys of the layout of mm
DownKeys(mm) == IF mm.keyboardLayout = QWERTY THEN {"down", "j"} ELSE {"down", "e"}
UpKeys(mm) == IF mm.keyboardLayout = QWERTY THEN {"up", "k"} ELSE {"up", "u"}

\* what a navigation-down / navigation-up key gives under clamping
MovedDown(mm) ==
    IF mm.selectedStep < Len(mm.steps) - 1
    THEN [mm EXCEPT !.selectedStep = @ + 1] ELSE mm
MovedUp(mm) ==
    IF mm.selectedStep > 0 THEN [mm EXCEPT !.selectedStep = @ - 1] ELSE mm

\* C11: with no notification active a navigation-down key of the active layout
\* moves selectedStep by exactly +1 below the last index and changes nothing
\* at the last index, navigation-up moves by exactly -1 above index 0 and
\* changes nothing at index 0; with three steps in the Colemak-DH layout and
\* the selection at 1, 'e' twice ends at index 2 and a third 'e' is a no-op.
C11_NavigationClamps ==
    /\ ~Notified(m) =>
          /\ \A key \in DownKeys(m) :
                Update(m, KeyMsg(key)) = [m |-> MovedDown(m), cmd |-> CmdNil]
          /\ \A key \in UpKeys(m) :
                Update(m, KeyMsg(key)) = [m |-> MovedUp(m), cmd |-> CmdNil]
    /\ (LastKey(DownKeys(prev)) /\ ~Notified(prev)) => m = MovedDown(prev)
    /\ (LastKey(UpKeys(prev)) /\ ~Notified(prev)) => m = MovedUp(prev)
    /\ (~Notified(m) /\ Len(m.steps) = 3 /\ m.keyboardLayout = ColemakDH
            /\ m.selectedStep = 1)
          => LET m1 == Update(m, KeyMsg("e")).m
                 m2 == Update(m1, KeyMsg("e")).m
                 m3 == Update(m2, KeyMsg("e")).m
             IN m1.selectedStep = 2 /\ m2.selectedStep = 2 /\ m3 = m2

\* C11 witness: with three steps in the Colemak-DH layout, 'e' was folded at
\* index 2 with no notification and changed nothing.
C11_Witness ==
    /\ LastKey({"e"})
    /\ ~Notified(prev)
    /\ Len(prev.steps) = 3
    /\ prev.keyboardLayout = ColemakDH
    /\ prev.selectedStep = 2
    /\ m = prev

\* the session started from a configuration load failure: NewModel leaves the
\* step list empty only then (every loaded configuration has the verify step)
LoadFailed == Len(m.steps) = 0

QuitKeys == {"q", "esc", "ctrl+c"}

\* C12 (as claimed): after a configuration load failure installing never
\* becomes true, no installation task is ever started and no success
\* notification ever appears.  (The claim's other part, that only quit and
\* resize events have an effect, already fails on enter, which dismisses the
\* notification, and on '?' and 'c'.)
C12_LoadFailureBlocks ==
    LoadFailed =>
       /\ ~m.installing
       /\ Len(tasks) = 0
       /\ ~NotifiedAs(m, "success")

\* C13: at most one installation task is active; every task started before
\* the latest one has delivered its final message.
C13_AtMostOneActive ==
    /\ Cardinality(Active) <= 1
    /\ \A r \in 1..Len(tasks) : r < Len(tasks) => tasks[r].pc = "done"
    /\ (LastKey(StartKeys) /\ last.cmd = CmdStart) => Active = {Len(tasks)}

\* C13 witness: a second task is running after the first one delivered its
\* message.
C13_Witness ==
    /\ Len(tasks) = 2
    /\ tasks[1].pc = "done"
    /\ tasks[2].pc = "running"
    /\ tasks[2].i > 0

\* the registry indexes of the steps a command has executed, in execution order
ExecutedIndexes(t) ==
    [a \in 1..Len(t.executedSteps) |-> matchStep(m.steps, t.executedSteps[a])]

\* C14: within one installation task the steps are executed in registry order,
\* each at most once and only those the loop has reached; a step whose Enabled
\* flag was false when the task started (and was not written while it ran) is
\* skipped and one whose flag was true is executed; once a step has returned an error the task has
\* returned, that step is the last one executed and no later step is attempted.
C14_SequentialFailFast ==
    \A r \in Active :
       LET t == tasks[r]
           ix == ExecutedIndexes(t)
           failed == t.msg.Error # Nil
       IN /\ \A a \in 1..Len(ix) : ix[a] >= 1 /\ ix[a] <= Len(m.steps)
          /\ \A a, b \in 1..Len(ix) : a < b => ix[a] < ix[b]
          /\ \A a \in 1..Len(ix) : ix[a] < t.i \/ (failed /\ ix[a] = t.i)
          /\ \A j \in 1..Len(t.raced) :
                (j < t.i /\ ~t.raced[j]) =>
                   ((\E a \in 1..Len(ix) : ix[a] = j) <=> t.startEnabled[j])
          /\ failed =>
                /\ t.pc = "returned"
                /\ Len(ix) > 0
                /\ t.msg.StepID = t.executedSteps[Len(ix)]
                /\ ix[Len(ix)] = t.i

\* C14 witness: the first of two enabled steps failed and the command returned
\* without attempting the second.
C14_Witness ==
    \E r \in Active :
       /\ tasks[r].pc = "returned"
       /\ tasks[r].msg.Error # Nil
       /\ tasks[r].executedSteps = <<"dotfiles">>
       /\ Len(m.steps) = 2
       /\ m.steps[2].Enabled /\ ~tasks[r].raced[2]

C16_TabStarts ==
    (~m.installing /\ ~Notified(m))
        => LET r == Update(m, KeyMsg("tab"))
           IN r.m.installing /\ r.cmd = CmdStart

\* a command Validate's dangerous-command check is meant to keep out
Dangerous(cmd) ==
    /\ Len(cmd) > 0
    /\ \/ cmd[1] \in dangerousCommands
       \/ \E j \in 1..Len(cmd) :
             Contains(cmd[j], "-rf") \/ Contains(cmd[j], "--force")

\* C17 (as claimed): no step function runs a configured command whose first
\* token is rm, sudo, chmod, chown, dd, mkfs, fdisk, killall or kill, or that
\* has an argument containing "-rf" or "--force".
C17_NoDangerousCommandRuns ==
    \A i \in 1..Len(commands) : ~Dangerous(commands[i])

\* C18 (as claimed): a step's Error text is non-empty only if its Status is
\* Error.  Stated where the fold of C2 plays no part: for the states a message
\* without an error leads to (the completion of a run) and the error texts
\* that Update does not take for a completion message.
C18_ErrorOnlyWithStatusError ==
    (LastInstall /\ last.ev.msg.Error = Nil)
        => \A i \in 1..Len(m.steps) :
              (m.steps[i].Error # "" /\ ~Contains(m.steps[i].Error, "complete!"))
                 => m.steps[i].Status = StatusError

\* a message that ends a run: it carries an error or contains "complete!"
Terminal(msg) == msg.Error # Nil \/ Contains(msg.Message, "complete!")

\* C19: installing is true exactly while an installation task has been started
\* and its terminal message has not been folded yet: it is false before the
\* first start, true from an accepted start on, false once the run's terminal
\* message is folded, and never false while a task is still running.
C19_InstallingWhileRunning ==
    /\ m.installing <=> Active # {}
    /\ Len(tasks) = 0 => ~m.installing
    /\ (LastKey(StartKeys) /\ last.cmd = CmdStart) => m.installing
    /\ (LastInstall /\ Terminal(last.ev.msg)) => ~m.installing
    /\ \A r \in Active : tasks[r].pc = "returned" => Terminal(tasks[r].msg)

\* C19 witness: the failure message of a run was folded and ended installing.
C19_Witness ==
    /\ LastInstall
    /\ last.ev.msg.Error # Nil
    /\ ~Contains(last.ev.msg.Message, "complete!")
    /\ prev.installing
    /\ ~m.installing
    /\ Active = {}

\* C20 (as claimed): while installing stays true, currentProgress does not
\* decrease when an install message with Progress in 0..100 is folded.
C20_ProgressNonDecreasing ==
    (LastInstall /\ last.ev.msg.Progress \in 0..100 /\ prev.installing /\ m.installing)
        => m.currentProgress >= prev.currentProgress

\* C21 (as claimed): every accepted start is eventually followed by a state
\* with installing false and an active notification.
C21_StartAlwaysNotified ==
    m.installing ~> (~m.installing /\ Notified(m))

\* C21: every accepted start is eventually followed by a state with installing
\* false and an active notification, unless the program is quit first; the
\* message a command returns without an error always contains "complete!",
\* also in the clean-install wording.
C21_StartNotifiedUnlessQuit ==
    /\ m.installing ~> (quit \/ (~m.installing /\ Notified(m)))
    /\ [](\A r \in 1..Len(tasks) :
            (tasks[r].pc = "returned" /\ tasks[r].msg.Error = Nil)
                => Contains(tasks[r].msg.Message, "complete!"))

\* C21 witness: the completion message in the clean-install wording was folded
\* and left installing false under a success notification.
C21_Witness ==
    /\ LastInstall
    /\ last.ev.msg.Error = Nil
    /\ Contains(last.ev.msg.Message, "Clean install")
    /\ prev.installing
    /\ ~m.installing
    /\ NotifiedAs(m, "success")

\* the same session state in the other keyboard layout
OtherLayout(mm) ==
    [mm EXCEPT !.keyboardLayout = IF @ = QWERTY THEN ColemakDH ELSE QWERTY]

\* the keys the two layouts share
SharedKeys == {"up", "down", "enter", " ", "?", "c", "q", "s"}

\* the navigation letters of the active layout and of the other one
UpLetter(mm) == IF mm.keyboardLayout = QWERTY THEN "k" ELSE "u"
DownLetter(mm) == IF mm.keyboardLayout = QWERTY THEN "j" ELSE "e"

\* C22: under QWERTY 'k' and 'j' navigate up and down and 'u' and 'e' change
\* nothing; under Colemak-DH 'u' and 'e' navigate up and down and 'k' and 'j'
\* change nothing; the arrow keys, enter, space, '?', 'c', 'q' and 's' do the
\* same in both layouts (each gives the same command and the same state but for
\* the layout field, which 'c' switches in both and the others keep in both).
C22_KeyResolutionPerLayout ==
    /\ Update(m, KeyMsg(UpLetter(m))) = [m |-> MovedUp(m), cmd |-> CmdNil]
    /\ Update(m, KeyMsg(DownLetter(m))) = [m |-> MovedDown(m), cmd |-> CmdNil]
    /\ Update(m, KeyMsg(UpLetter(OtherLayout(m)))) = [m |-> m, cmd |-> CmdNil]
    /\ Update(m, KeyMsg(DownLetter(OtherLayout(m)))) = [m |-> m, cmd |-> CmdNil]
    /\ LastKey({UpLetter(prev)}) => m = MovedUp(prev)
    /\ LastKey({DownLetter(prev)}) => m = MovedDown(prev)
    /\ LastKey({UpLetter(OtherLayout(prev)), DownLetter(OtherLayout(prev))})
          => m = prev
    /\ \A key \in SharedKeys :
          LET r == Update(m, KeyMsg(key))
              o == Update(OtherLayout(m), KeyMsg(key))
          IN /\ o.cmd = r.cmd
             /\ OtherLayout(o.m) = r.m

\* C22 witness: in the QWERTY layout 'j' was folded and moved the selection
\* down, where 'e' would change nothing.
C22_Witness ==
    /\ LastKey({"j"})
    /\ prev.keyboardLayout = QWERTY
    /\ m.selectedStep = prev.selectedStep + 1
    /\ Update(prev, KeyMsg("e")).m = prev

\* C23: 'c' switches keyboardLayout between QWERTY and ColemakDH, changes no
\* other field of the session state and returns no command; twice it restores
\* the layout; no other key, no resize and no install message changes
\* keyboardLayout.
C23_LayoutSwitch ==
    /\ Update(m, KeyMsg("c")) = [m |-> OtherLayout(m), cmd |-> CmdNil]
    /\ Update(Update(m, KeyMsg("c")).m, KeyMsg("c")).m = m
    /\ m.keyboardLayout \in {QWERTY, ColemakDH}
    /\ \A key \in Keys \ {"c"} :
          Update(m, KeyMsg(key)).m.keyboardLayout = m.keyboardLayout
    /\ \A w \in {0, 49, 100}, h \in {0, 9, 30} :
          Update(m, WindowSizeMsg(w, h)).m.keyboardLayout = m.keyboardLayout
    /\ \A msg \in OpenMsgs :
          Update(m, InstallEvent(msg)).m.keyboardLayout = m.keyboardLayout
    /\ LastKey({"c"}) => m = OtherLayout(prev)
    /\ ~LastKey({"c"}) => m.keyboardLayout = prev.keyboardLayout

\* C23 witness: 'c' was folded in the QWERTY layout with the selection moved
\* and a step disabled, and gave Colemak-DH with everything else kept.
C23_Witness ==
    /\ LastKey({"c"})
    /\ prev.keyboardLayout = QWERTY
    /\ m.keyboardLayout = ColemakDH
    /\ m.selectedStep = 1
    /\ ~m.steps[1].Enabled

\* C24 (as claimed): View shows the loading placeholder when width or height
\* is 0, otherwise the too-small message when width < 50 or height < 10,
\* otherwise the help screen when help is visible, otherwise the pane layout.
C24_ViewPrecedence ==
    frame.kind = IF m.width = 0 \/ m.height = 0 THEN "loading"
                 ELSE IF m.width < 50 \/ m.height < 10 THEN "too small"
                 ELSE IF m.showHelp THEN "help"
                 ELSE "panes"

\* the Status and the Error of every step
StatusAndError(mm) ==
    [i \in 1..Len(mm.steps) |-> <<mm.steps[i].Status, mm.steps[i].Error>>]

\* C25: no key event and no resize event changes the Status or the Error of
\* any step; only an install message does.
C25_StatusOnlyByInstallMsg ==
    /\ \A key \in Keys :
          StatusAndError(Update(m, KeyMsg(key)).m) = StatusAndError(m)
    /\ \A w \in {0, 49, 100}, h \in {0, 9, 30} :
          StatusAndError(Update(m, WindowSizeMsg(w, h)).m) = StatusAndError(m)
    /\ ~LastInstall => StatusAndError(m) = StatusAndError(prev)

\* C25 witness: the start key was accepted with a step in StatusError and a
\* step Complete, and left both as they were.
C25_Witness ==
    /\ LastKey(StartKeys)
    /\ last.cmd = CmdStart
    /\ \E i \in 1..Len(m.steps) :
          m.steps[i].Status = StatusError /\ m.steps[i].Error # ""
    /\ \E i \in 1..Len(m.steps) : m.steps[i].Status = StatusComplete

\* install messages with no error and no "complete!" in the text
NonTerminalMsgs ==
    {InstallMsg(id, status, progress, message, Nil) :
        id \in {"", "verify", "dotfiles", "homebrew"},
        status \in {StatusInProgress, StatusComplete},
        progress \in {0, 50},
        message \in {"", "Installing..."}}

\* what the claim lets a non-terminal message msg make of mm
NonTerminalFold(mm, msg, res) ==
    /\ res.currentProgress = IF msg.Progress > 0 THEN msg.Progress ELSE mm.currentProgress
    /\ res.currentMessage = IF msg.Message # "" THEN msg.Message ELSE mm.currentMessage
    /\ Len(res.steps) = Len(mm.steps)
    /\ \A i \in 1..Len(mm.steps) :
          /\ res.steps[i].ID = mm.steps[i].ID
          /\ res.steps[i].Enabled = mm.steps[i].Enabled
          /\ res.steps[i].Error = mm.steps[i].Error
          /\ res.steps[i].Status =
                IF msg.StepID # "" /\ mm.steps[i].ID = msg.StepID
                THEN msg.Status ELSE mm.steps[i].Status
    /\ Cardinality({i \in 1..Len(mm.steps) : res.steps[i] # mm.steps[i]}) <= 1
    /\ res.installing = mm.installing
    /\ res.notification = mm.notification
    /\ res.selectedStep = mm.selectedStep
    /\ res.showHelp = mm.showHelp
    /\ res.keyboardLayout = mm.keyboardLayout
    /\ res.width = mm.width
    /\ res.height = mm.height

\* C26: folding an install message with no error and no "complete!" in its
\* text changes only currentProgress (when Progress > 0), currentMessage (when
\* Message is not empty) and the Status of the one step whose ID is StepID; no
\* step changes when StepID is empty or matches none; installing, the
\* notification, the selection and every Enabled flag stay.
C26_NonTerminalFold ==
    /\ \A msg \in NonTerminalMsgs :
          LET r == Update(m, InstallEvent(msg))
          IN r.cmd = CmdNil /\ NonTerminalFold(m, msg, r.m)
    /\ (LastInstall /\ last.ev.msg.Error = Nil
            /\ ~Contains(last.ev.msg.Message, "complete!"))
          => NonTerminalFold(prev, last.ev.msg, m)

\* C26 witness: a progress message for the verify step was folded while
\* installing, with the dotfiles step disabled, and changed the progress, the
\* text and the Status of verify only.
C26_Witness ==
    /\ LastInstall
    /\ last.ev.msg.Error = Nil
    /\ last.ev.msg.StepID = "verify"
    /\ last.ev.msg.Progress = 50
    /\ prev.installing
    /\ prev.currentProgress # 50
    /\ Len(m.steps) = 2
    /\ ~m.steps[1].Enabled
    /\ prev.steps[2].Status # StatusInProgress
    /\ m.steps[2].Status = StatusInProgress

\* the counts of a rendered bar are those the claim gives for progress
BarCounts(bar, progress) ==
    /\ bar.filledCount * 100 <= bar.barWidth * progress
    /\ bar.barWidth * progress < (bar.filledCount + 1) * 100
    /\ bar.filledCount \in 0..bar.barWidth
    /\ bar.emptyCount >= 0
    /\ bar.filledCount + bar.emptyCount = bar.barWidth

\* C27: renderProgressBar gives a bar iff installing is true, and for every
\* reachable currentProgress and every detail width of the pane layout the
\* filled count is floor(barWidth * currentProgress / 100), lies in
\* 0..barWidth, and filled plus empty is barWidth with empty never negative.
C27_ProgressBar ==
    frame.kind = "panes" =>
       /\ renderDetails(m, frame.detailWidth).rendered <=> m.installing
       /\ \A w \in {0, 13, 14, frame.detailWidth - 4} :
             renderProgressBar(m, w).rendered <=> m.installing
       /\ m.installing =>
             /\ BarCounts(renderDetails(m, frame.detailWidth), m.currentProgress)
             /\ renderDetails(m, frame.detailWidth).barWidth >= 10
             /\ \A msg \in AllProgressMsgs :
                   LET m2 == Update(m, InstallEvent(msg)).m
                   IN m2.installing =>
                         BarCounts(renderDetails(m2, frame.detailWidth),
                                   m2.currentProgress)

\* C27 witness: installing at progress 33 on a terminal 100 wide: the detail
\* pane is 69 wide, the bar 61, of which 20 cells are filled and 41 empty.
C27_Witness ==
    /\ m.installing
    /\ m.currentProgress = 33
    /\ m.width = 100
    /\ frame.kind = "panes"
    /\ renderDetails(m, frame.detailWidth) =
          [rendered |-> TRUE, barWidth |-> 61, filledCount |-> 20, emptyCount |-> 41]

\* the fixed order of the step IDs, and the Install flag of a step's section
StepOrder == <<"homebrew", "terminal", "shell", "devtools", "dotfiles", "verify">>

Installs(c, id) ==
    CASE id = "homebrew" -> c.Homebrew
      [] id = "terminal" -> c.Terminal
      [] id = "shell" -> c.Shell
      [] id = "devtools" -> c.DevTools
      [] id = "dotfiles" -> c.Dotfiles
      [] OTHER -> TRUE

\* the position of id in the fixed order
OrderIndex(id) == CHOOSE k \in 1..Len(StepOrder) : StepOrder[k] = id

\* C28: for every configuration the step list built at startup has pairwise
\* distinct IDs in the order homebrew, terminal, shell, devtools, dotfiles,
\* verify, each present iff its section's Install flag is set and verify
\* always present and last; every step starts Enabled and Ready with an empty
\* Error; the length is getTotalConfiguredSteps of the configuration.
C28_StepRegistry ==
    LET c == loaded[1]
        steps == m.steps
    IN /\ \A i, j \in 1..Len(steps) :
             /\ steps[i].ID \in {StepOrder[k] : k \in 1..Len(StepOrder)}
             /\ i < j => OrderIndex(steps[i].ID) < OrderIndex(steps[j].ID)
       /\ \A k \in 1..Len(StepOrder) :
             (\E i \in 1..Len(steps) : steps[i].ID = StepOrder[k])
                <=> Installs(c, StepOrder[k])
       /\ Len(steps) >= 1
       /\ steps[Len(steps)].ID = "verify"
       /\ Len(steps) = getTotalConfiguredSteps(c)
       /\ last.ev = NoEvent =>
             \A i \in 1..Len(steps) :
                /\ steps[i].Enabled
                /\ steps[i].Status = StatusReady
                /\ steps[i].Error = ""

\* C28 witness: the startup state of the configuration that installs the
\* shell and the dotfiles sections only: three steps.
C28_Witness ==
    /\ last.ev = NoEvent
    /\ loaded # Nil
    /\ loaded[1].Shell /\ loaded[1].Dotfiles
    /\ ~loaded[1].Homebrew /\ ~loaded[1].Terminal /\ ~loaded[1].DevTools
    /\ Len(m.steps) = 3
    /\ m.steps[1].ID = "shell"
    /\ m.steps[2].ID = "dotfiles"
    /\ m.steps[3].ID = "verify"

\* the same session state with the help flag flipped
HelpFlipped(mm) == [mm EXCEPT !.showHelp = ~@]

\* C29: '?' flips showHelp and nothing else; for every other key the result
\* is the same whether showHelp is true or false (the same command, the same
\* state but for the flag, which the key leaves as it was), so navigation,
\* toggle and start take effect while the help screen is displayed.
C29_HelpOrthogonal ==
    /\ Update(m, KeyMsg("?")) = [m |-> HelpFlipped(m), cmd |-> CmdNil]
    /\ LastKey({"?"}) => m = HelpFlipped(prev)
    /\ \A key \in Keys \ {"?"} :
          LET r == Update(m, KeyMsg(key))
              h == Update(HelpFlipped(m), KeyMsg(key))
          IN /\ h.cmd = r.cmd
             /\ h.m = HelpFlipped(r.m)
             /\ r.m.showHelp = m.showHelp
    /\ (last.ev.type = "KeyMsg" /\ last.ev.key # "?")
          => m = HelpFlipped(Update(HelpFlipped(prev), last.ev).m)

\* C29 witness: with the help screen displayed the start key was accepted and
\* the help screen is still displayed.
C29_Witness ==
    /\ LastKey({"s"})
    /\ prev.showHelp
    /\ ~prev.installing
    /\ m.installing
    /\ last.cmd = CmdStart
    /\ frame.kind = "help"

\* C30 (as claimed): of the steps its loop has passed, an installation task
\* has executed exactly those that were Enabled when the start key was
\* accepted, whatever was toggled while it ran.
C30_ExecutesStartSnapshot ==
    \A r \in Active :
       LET t == tasks[r]
           ix == ExecutedIndexes(t)
       IN \A j \in 1..Len(t.startEnabled) :
             j < t.i => ((\E a \in 1..Len(ix) : ix[a] = j) <=> t.startEnabled[j])

\* step j of the registry is one the command t has executed
Executed(t, j) == \E a \in 1..Len(t.executedSteps) : ExecutedIndexes(t)[a] = j

\* C31 (as claimed): when the completion message of a run is folded, the
\* steps the run executed are Complete and the others keep the Status they
\* had, whatever was toggled before the message is folded.  (Stated for the
\* runs during whose loop no Enabled flag was written, so that the
\* unsynchronised read of C30 plays no part.)
C31_CompleteIffExecuted ==
    (/\ LastInstall
     /\ last.from.pc = "returned"
     /\ last.ev.msg.Error = Nil
     /\ \A j \in 1..Len(prev.steps) : ~last.from.raced[j])
        => \A j \in 1..Len(prev.steps) :
              IF Executed(last.from, j)
              THEN m.steps[j].Status = StatusComplete
              ELSE m.steps[j].Status = prev.steps[j].Status

\* C32: installing and an active notification exclude each other: while
\* installing is true the notification slot is empty, and the state an install
\* message leaves with a notification has installing false.
C32_InstallingExcludesNotification ==
    /\ m.installing => ~Notified(m)
    /\ \A key \in Keys :
          LET r == Update(m, KeyMsg(key)).m IN r.installing => ~Notified(r)
    /\ \A msg \in OpenMsgs :
          LET r == Update(m, InstallEvent(msg)).m IN Notified(r) => ~r.installing
    /\ (LastInstall /\ Notified(m)) => ~m.installing

\* C32 witness: the failure message of a running command was folded: it
\* raised the error notification and ended installing in the same state.
C32_Witness ==
    /\ LastInstall
    /\ last.from.pc = "returned"
    /\ prev.installing
    /\ ~Notified(prev)
    /\ NotifiedAs(m, "error")
    /\ ~m.installing

\* msg is one of the two messages a command may return, t being the command
TerminalShape(t, msg) ==
    \/ /\ msg.Error # Nil
       /\ Len(t.executedSteps) > 0
       /\ msg.StepID = t.executedSteps[Len(t.executedSteps)]
       /\ msg.Status = StatusError
    \/ /\ msg.Error = Nil
       /\ msg.StepID = ""
       /\ msg.Progress = MaxProgress
       /\ Contains(msg.Message, "complete!")

\* what C33 says of every state: a returned command holds one message of a
\* terminal shape, the fold of a command's message ends installing and is the
\* only message of that command, and no step is InProgress
OneTerminalMsg ==
    /\ \A r \in 1..Len(tasks) :
          tasks[r].pc = "returned" => TerminalShape(tasks[r], tasks[r].msg)
    /\ LastInstall =>
          /\ last.from.pc = "returned"
          /\ last.ev.msg = last.from.msg
          /\ TerminalShape(last.from, last.ev.msg)
          /\ ~m.installing
          /\ Cardinality({r \in 1..Len(tasks) : tasks[r].pc = "running"}) = 0
    /\ Cardinality({r \in 1..Len(tasks) : tasks[r].pc # "done"}) <= 1
    /\ \A i \in 1..Len(m.steps) : m.steps[i].Status # StatusInProgress

\* C33 (as claimed): every command an accepted start creates delivers its one
\* message (at most one command is undelivered at a time, and it comes to be
\* delivered), and that message is terminal.
C33_EveryStartDelivers ==
    /\ (Active # {}) ~> (Active = {})
    /\ []OneTerminalMsg

\* C33: every command an accepted start creates delivers exactly one message,
\* unless the program is quit first; the message is terminal (an error with
\* the failing step's ID and Status Error, or an empty StepID, Progress 100
\* and a text containing "complete!"); no step ever has Status InProgress.
C33_OneTerminalMsgUnlessQuit ==
    /\ (Active # {}) ~> (quit \/ Active = {})
    /\ []OneTerminalMsg

\* C33 witness: the second step of a run failed and the failure message, the
\* run's only one, was folded onto that step.
C33_Witness ==
    /\ LastInstall
    /\ last.from.executedSteps = <<"dotfiles", "verify">>
    /\ last.ev.msg.StepID = "verify"
    /\ last.ev.msg.Error # Nil
    /\ m.steps[2].Status = StatusError
    /\ tasks[Len(tasks)].pc = "done"

\* C34 (as claimed): when the failure message of a run is folded, the failing
\* step has Status Error and the error text of the message, every other step
\* keeps its Status and Error, and currentProgress is unchanged.  (Between the
\* start of the run and this fold nothing changes a Status, an Error or
\* currentProgress: no other message is delivered and keys change none of
\* them, so the state before the fold stands for the state before the run.)
C34_FailureMarksOnlyFailingStep ==
    (LastInstall /\ last.from.pc = "returned" /\ last.ev.msg.Error # Nil)
        => LET x == matchStep(prev.steps, last.ev.msg.StepID)
           IN /\ x # 0
              /\ m.steps[x].Status = StatusError
              /\ m.steps[x].Error = last.ev.msg.Error[1]
              /\ \A j \in 1..Len(prev.steps) :
                    j # x => /\ m.steps[j].Status = prev.steps[j].Status
                             /\ m.steps[j].Error = prev.steps[j].Error
              /\ m.currentProgress = prev.currentProgress

====
